---- MODULE Spec2Model ----
(***************************************************************************)
(* Voice-order bot: menu catalog (menu_integration.py), order extraction   *)
(* and the call-disconnected handler that posts the order to the n8n       *)
(* webhook (enhanced_restaurant_bot.py, restaurant_bot.py).                *)
(*                                                                         *)
(* Text is a sequence of one-character strings, so that str.lower(), the   *)
(* `in` substring test, str.split() and " ".join() are computed as Python  *)
(* computes them.  The state holds item names, index keys and queries as   *)
(* strings; Text gives the characters of one.  Prices are whole cents.     *)
(***************************************************************************)
EXTENDS Integers, Sequences, FiniteSets, TLC

VARIABLES
    files,          \* the two paths _load_menu may open: primary, fallback
    menu_manager,   \* the global menu_manager of menu_integration (menu_data, item_index)
    enhanced_order_processor,
                    \* the global order processor: the menu manager it was constructed with
    result,         \* the last call of a catalog/extraction function and its value
    bot,            \* the module that runs: enhanced_restaurant_bot or restaurant_bot
    phase,          \* per call: new, connected, disconnected
    messages,       \* per call: the messages list of the LLM context (each message by its name)
    handlers,       \* per call: the runs of on_client_disconnected, in firing order
    sinkLog,        \* per call: the payloads POSTed to the webhook, in order
    cancelled       \* per call: how many times task.cancel() was called

(***************************************************************************)
(* Bounds of the model.                                                    *)
(***************************************************************************)
MaxUtterances == 2
MaxFirings == 2
\* what is said in a call when two calls are served at once
MaxSaidTwoCalls == 1

(***************************************************************************)
(* Python text primitives.                                                 *)
(***************************************************************************)
UpperCase == <<"A","B","C","D","E","F","G","H","I","J","K","L","M","N","O","P","Q","R","S","T","U","V","W","X","Y","Z">>
LowerCase == <<"a","b","c","d","e","f","g","h","i","j","k","l","m","n","o","p","q","r","s","t","u","v","w","x","y","z">>

\* str.lower() on one character
ToLower ==
    [ch \in {UpperCase[i] : i \in 1..26} |->
        LowerCase[CHOOSE i \in 1..26 : UpperCase[i] = ch]]

LowerChar(ch) == IF ch \in DOMAIN ToLower THEN ToLower[ch] ELSE ch

\* str.lower()
Lower(s) == IF s = <<>> THEN <<>> ELSE [i \in 1..Len(s) |-> LowerChar(s[i])]

\* `pat in text` on strings: the empty string is in every string
Contains(text, pat) ==
    \/ pat = <<>>
    \/ \E i \in 1..(Len(text) - Len(pat) + 1) :
          /\ text[i] = pat[1]
          /\ SubSeq(text, i, i + Len(pat) - 1) = pat

IsSpace(ch) == ch \in {" ", "\n", "\t"}

\* str.split() without arguments: the maximal runs of non-whitespace
RECURSIVE SplitFrom(_, _, _)
SplitFrom(s, i, word) ==
    IF i > Len(s)
    THEN IF word = <<>> THEN <<>> ELSE <<word>>
    ELSE IF IsSpace(s[i])
         THEN (IF word = <<>> THEN <<>> ELSE <<word>>) \o SplitFrom(s, i + 1, <<>>)
         ELSE SplitFrom(s, i + 1, Append(word, s[i]))

Split(s) == SplitFrom(s, 1, <<>>)

\* " ".join(parts)
RECURSIVE Join(_)
Join(parts) ==
    IF parts = <<>> THEN <<>>
    ELSE IF Len(parts) = 1 THEN parts[1]
    ELSE parts[1] \o <<" ">> \o Join(Tail(parts))

(***************************************************************************)
(* The characters of the strings the state holds.                          *)
(***************************************************************************)
Chars ==
    "California Roll" :> <<"C","a","l","i","f","o","r","n","i","a"," ","R","o","l","l">>
    @@ "california roll" :> <<"c","a","l","i","f","o","r","n","i","a"," ","r","o","l","l">>
    @@ "Salmon Roll" :> <<"S","a","l","m","o","n"," ","R","o","l","l">>
    @@ "salmon roll" :> <<"s","a","l","m","o","n"," ","r","o","l","l">>
    @@ "Salmon Sushi" :> <<"S","a","l","m","o","n"," ","S","u","s","h","i">>
    @@ "salmon sushi" :> <<"s","a","l","m","o","n"," ","s","u","s","h","i">>
    @@ "Spicy Tuna Roll" :> <<"S","p","i","c","y"," ","T","u","n","a"," ","R","o","l","l">>
    @@ "spicy tuna roll" :> <<"s","p","i","c","y"," ","t","u","n","a"," ","r","o","l","l">>
    @@ "Crunchy California Roll" :> <<"C","r","u","n","c","h","y"," ","C","a","l","i","f","o","r","n","i","a"," ","R","o","l","l">>
    @@ "crunchy california roll" :> <<"c","r","u","n","c","h","y"," ","c","a","l","i","f","o","r","n","i","a"," ","r","o","l","l">>
    @@ "Salmon" :> <<"S","a","l","m","o","n">>
    @@ "salmon" :> <<"s","a","l","m","o","n">>
    @@ "Edamame" :> <<"E","d","a","m","a","m","e">>
    @@ "edamame" :> <<"e","d","a","m","a","m","e">>
    @@ "EDAMAME" :> <<"E","D","A","M","A","M","E">>
    @@ "Miso Soup and Edamame" :> <<"M","i","s","o"," ","S","o","u","p"," ","a","n","d"," ","E","d","a","m","a","m","e">>
    @@ "miso soup and edamame" :> <<"m","i","s","o"," ","s","o","u","p"," ","a","n","d"," ","e","d","a","m","a","m","e">>
    @@ "Edamame " :> <<"E","d","a","m","a","m","e"," ">>
    @@ "edamame " :> <<"e","d","a","m","a","m","e"," ">>
    @@ "Tuna Roll" :> <<"T","u","n","a"," ","R","o","l","l">>
    @@ "tuna roll" :> <<"t","u","n","a"," ","r","o","l","l">>
    @@ "Miso Soup" :> <<"M","i","s","o"," ","S","o","u","p">>
    @@ "miso soup" :> <<"m","i","s","o"," ","s","o","u","p">>
    @@ "Chicken Teriyaki" :> <<"C","h","i","c","k","e","n"," ","T","e","r","i","y","a","k","i">>
    @@ "chicken teriyaki" :> <<"c","h","i","c","k","e","n"," ","t","e","r","i","y","a","k","i">>
    @@ "Tuna Sushi" :> <<"T","u","n","a"," ","S","u","s","h","i">>
    @@ "tuna sushi" :> <<"t","u","n","a"," ","s","u","s","h","i">>
    @@ "" :> <<>>
    @@ "roll" :> <<"r","o","l","l">>
    @@ "519-988-1688" :> <<"5","1","9","-","9","8","8","-","1","6","8","8">>
    @@ "Hana" :> <<"H","a","n","a">>
    @@ "Hana Tanaka" :> <<"H","a","n","a"," ","T","a","n","a","k","a">>
    @@ "226-555-0199" :> <<"2","2","6","-","5","5","5","-","0","1","9","9">>

\* the characters of a string
Text(s) == Chars[s]

\* the string of a sequence of characters: of a name, a key, a query, or a
\* name or telephone number found in a conversation
Str(t) == CHOOSE s \in DOMAIN Chars : Chars[s] = t

(***************************************************************************)
(* Python float: IEEE-754 binary64 with round-to-nearest-even.  A natural   *)
(* number is the sequence of its limbs to the base 2^15, the lowest first,  *)
(* without leading zero limbs; a float is m * 2^e with a mantissa m of 53   *)
(* bits (or m = 0).  Only the finite non-negative normal range is needed.   *)
(***************************************************************************)
LimbBits == 15
LimbBase == 32768
MantissaBits == 53

RECURSIVE Pow2(_)
Pow2(k) == IF k = 0 THEN 1 ELSE 2 * Pow2(k - 1)

RECURSIVE Trim(_)
Trim(a) ==
    IF a = <<>> THEN <<>>
    ELSE IF a[Len(a)] = 0 THEN Trim(SubSeq(a, 1, Len(a) - 1))
    ELSE a

RECURSIVE BigOfInt(_)
BigOfInt(n) == IF n = 0 THEN <<>> ELSE <<n % LimbBase>> \o BigOfInt(n \div LimbBase)

RECURSIVE BigToInt(_)
BigToInt(a) == IF a = <<>> THEN 0 ELSE a[1] + LimbBase * BigToInt(Tail(a))

RECURSIVE BigAddCarry(_, _, _)
BigAddCarry(a, b, carry) ==
    IF a = <<>> /\ b = <<>>
    THEN (IF carry = 0 THEN <<>> ELSE <<carry>>)
    ELSE LET x == (IF a = <<>> THEN 0 ELSE a[1]) + (IF b = <<>> THEN 0 ELSE b[1]) + carry
         IN <<x % LimbBase>>
            \o BigAddCarry(IF a = <<>> THEN <<>> ELSE Tail(a),
                           IF b = <<>> THEN <<>> ELSE Tail(b),
                           x \div LimbBase)

BigAdd(a, b) == BigAddCarry(a, b, 0)

\* a * k + carry for a number k below the base
RECURSIVE BigMulSmall(_, _, _)
BigMulSmall(a, k, carry) ==
    IF a = <<>> THEN BigOfInt(carry)
    ELSE LET x == a[1] * k + carry
         IN <<x % LimbBase>> \o BigMulSmall(Tail(a), k, x \div LimbBase)

RECURSIVE BigMul(_, _)
BigMul(a, b) ==
    IF a = <<>> \/ b = <<>> THEN <<>>
    ELSE Trim(BigAdd(BigMulSmall(a, b[1], 0), <<0>> \o BigMul(a, Tail(b))))

\* quotient and remainder of a by a number d below the base
RECURSIVE BigDivSmall(_, _)
BigDivSmall(a, d) ==
    IF a = <<>> THEN [q |-> <<>>, r |-> 0]
    ELSE LET hi == BigDivSmall(Tail(a), d)
             x == hi.r * LimbBase + a[1]
         IN [q |-> Trim(<<x \div d>> \o hi.q), r |-> x % d]

RECURSIVE BitLenInt(_)
BitLenInt(n) == IF n = 0 THEN 0 ELSE 1 + BitLenInt(n \div 2)

BitLen(a) == IF a = <<>> THEN 0 ELSE LimbBits * (Len(a) - 1) + BitLenInt(a[Len(a)])

IsOdd(a) == a # <<>> /\ a[1] % 2 = 1

\* a * 2^k
ShiftLeft(a, k) ==
    IF a = <<>> THEN <<>>
    ELSE [i \in 1..(k \div LimbBits) |-> 0] \o BigMulSmall(a, Pow2(k % LimbBits), 0)

\* floor(a / 2^k)
ShiftRight(a, k) ==
    IF k \div LimbBits >= Len(a) THEN <<>>
    ELSE BigDivSmall(SubSeq(a, k \div LimbBits + 1, Len(a)), Pow2(k % LimbBits)).q

\* a / 2^k rounded to the nearest natural number, a tie to the even one
RoundShift(a, k) ==
    IF k = 0 THEN a
    ELSE LET q2 == ShiftRight(a, k - 1)
             q == ShiftRight(q2, 1)
             up == IsOdd(q2) /\ (ShiftLeft(q2, k - 1) # a \/ IsOdd(q))
         IN IF up THEN BigAdd(q, <<1>>) ELSE q

FloatZero == [m |-> <<>>, e |-> 0]

\* the float nearest to n * 2^e
RoundToFloat(n, e) ==
    IF n = <<>> THEN FloatZero
    ELSE IF BitLen(n) <= MantissaBits
    THEN [m |-> ShiftLeft(n, MantissaBits - BitLen(n)), e |-> e - (MantissaBits - BitLen(n))]
    ELSE LET k == BitLen(n) - MantissaBits
             r == RoundShift(n, k)
         IN IF BitLen(r) > MantissaBits
            THEN [m |-> ShiftRight(r, 1), e |-> e + k + 1]
            ELSE [m |-> r, e |-> e + k]

\* the float of a decimal literal num/den (den below the base): json.load
\* of a price, the literal 0.13.  The quotient is taken with 70 binary
\* places and a last bit that says whether anything was left over.
FloatOfRatio(num, den) ==
    LET d == BigDivSmall(ShiftLeft(BigOfInt(num), 70), den)
    IN RoundToFloat(BigAdd(ShiftLeft(d.q, 1), IF d.r = 0 THEN <<>> ELSE <<1>>), 0 - 71)

\* float(n) of an int
FloatOfInt(n) == RoundToFloat(BigOfInt(n), 0)

\* x * y
FloatMul(x, y) == RoundToFloat(BigMul(x.m, y.m), x.e + y.e)

\* x + y
FloatAdd(x, y) ==
    IF x.m = <<>> THEN y
    ELSE IF y.m = <<>> THEN x
    ELSE LET e == IF x.e < y.e THEN x.e ELSE y.e
         IN RoundToFloat(BigAdd(ShiftLeft(x.m, x.e - e), ShiftLeft(y.m, y.e - e)), e)

\* round(x, 2), in cents: the decimal with two places nearest to the exact
\* value of the float (a float below 2^53 has e < 0 or is an integer)
RoundCents(x) ==
    IF x.e >= 0 THEN BigToInt(ShiftLeft(BigMulSmall(x.m, 100, 0), x.e))
    ELSE BigToInt(RoundShift(BigMulSmall(x.m, 100, 0), 0 - x.e))

(***************************************************************************)
(* Menu documents.  menu_data["menu"] is a dict category -> list of item   *)
(* dicts; a dict is modelled as the sequence of its entries in insertion   *)
(* order, an item dict as a record with the keys it has.                   *)
(***************************************************************************)
MenuStandard ==
    << [category |-> "Maki Rolls",
        items |-> << [name |-> "California Roll", price |-> 728],
                     [name |-> "Salmon Roll", price |-> 728] >>],
       [category |-> "Sushi",
        items |-> << [name |-> "Salmon Sushi", price |-> 398] >>] >>

\* no "Tuna Roll" and no "California Roll", only rolls whose names contain them
MenuSpecial ==
    << [category |-> "Special Rolls",
        items |-> << [name |-> "Spicy Tuna Roll", price |-> 998],
                     [name |-> "Crunchy California Roll", price |-> 1298] >>] >>

\* the same name in two categories
MenuSameNameTwoCategories ==
    << [category |-> "Sushi",
        items |-> << [name |-> "Salmon", price |-> 398] >>],
       [category |-> "Sashimi",
        items |-> << [name |-> "Salmon", price |-> 428] >>] >>

\* two names of one category that are equal after lower()
MenuSameNameOneCategory ==
    << [category |-> "Appetizers",
        items |-> << [name |-> "Edamame", price |-> 838],
                     [name |-> "EDAMAME", price |-> 900] >>] >>

MenuNegativePrice ==
    << [category |-> "Appetizers",
        items |-> << [name |-> "Edamame", price |-> -838] >>] >>

\* an item dict without the "price" key
MenuNoPriceKey ==
    << [category |-> "Maki Rolls",
        items |-> << [name |-> "California Roll"] >>] >>

\* an item whose name holds two of the canonical names
MenuCombo ==
    << [category |-> "Combos",
        items |-> << [name |-> "Miso Soup and Edamame", price |-> 1098] >>] >>

\* a name with a trailing blank
MenuPaddedName ==
    << [category |-> "Appetizers",
        items |-> << [name |-> "Edamame ", price |-> 838] >>] >>

Menus ==
    { MenuStandard, MenuSpecial, MenuSameNameTwoCategories,
      MenuSameNameOneCategory, MenuNegativePrice, MenuNoPriceKey,
      MenuPaddedName, MenuCombo }

\* What a path holds: nothing, text that is not JSON, a JSON object without
\* the "menu" key, or a menu document.
FileMissing == [kind |-> "missing", menu |-> <<>>]
FileMalformed == [kind |-> "malformed", menu |-> <<>>]
FileNoMenuKey == [kind |-> "no_menu_key", menu |-> <<>>]
FileMenu(m) == [kind |-> "menu", menu |-> m]

PrimaryFiles ==
    {FileMissing, FileMalformed, FileNoMenuKey} \cup {FileMenu(m) : m \in Menus}
FallbackFiles == {FileMissing, FileMalformed, FileMenu(MenuStandard)}

(***************************************************************************)
(* OishiiMenuManager                                                       *)
(***************************************************************************)
\* open(path) + json.load: the exception raised, or the parsed document
ReadJson(file) ==
    CASE file.kind = "missing" -> [raised |-> "FileNotFoundError", data |-> file]
      [] file.kind = "malformed" -> [raised |-> "JSONDecodeError", data |-> file]
      [] OTHER -> [raised |-> "none", data |-> file]

\* _load_menu: the primary path, and on FileNotFoundError the fallback path
LoadMenuFile(fs) ==
    IF ReadJson(fs.primary).raised = "FileNotFoundError"
    THEN ReadJson(fs.fallback)
    ELSE ReadJson(fs.primary)

\* self.item_index[name] = {...}: a dict keeps the place of a key it has
IndexPut(index, key, entry) ==
    IF \E i \in 1..Len(index) : index[i].key = key
    THEN [i \in 1..Len(index) |->
            IF index[i].key = key THEN [key |-> key, data |-> entry] ELSE index[i]]
    ELSE Append(index, [key |-> key, data |-> entry])

RECURSIVE IndexItems(_, _, _)
IndexItems(index, category, items) ==
    IF items = <<>> THEN index
    ELSE IndexItems(IndexPut(index, Str(Lower(Text(items[1].name))),
                             [category |-> category, item |-> items[1]]),
                    category, Tail(items))

\* _build_search_index over menu_data["menu"].items()
RECURSIVE BuildSearchIndex(_, _)
BuildSearchIndex(index, menu) ==
    IF menu = <<>> THEN index
    ELSE BuildSearchIndex(IndexItems(index, menu[1].category, menu[1].items),
                          Tail(menu))

Unloaded == [state |-> "unloaded", error |-> "none", menu |-> <<>>, item_index |-> <<>>]

\* OishiiMenuManager.__init__: an exception of _load_menu or of
\* menu_data["menu"] leaves no instance
NewMenuManager(fs) ==
    LET r == LoadMenuFile(fs) IN
    IF r.raised # "none"
    THEN [state |-> "failed", error |-> r.raised, menu |-> <<>>, item_index |-> <<>>]
    ELSE IF r.data.kind = "no_menu_key"
    THEN [state |-> "failed", error |-> "KeyError", menu |-> <<>>, item_index |-> <<>>]
    ELSE [state |-> "loaded", error |-> "none", menu |-> r.data.menu,
          item_index |-> BuildSearchIndex(<<>>, r.data.menu)]

\* a search condition that takes every indexed name
SearchHitAny(query, name) == TRUE

\* the condition of search_items on one indexed name
SearchHit(query, name) ==
    \/ Contains(name, query)
    \/ \E w \in 1..Len(Split(name)) : Contains(Split(name)[w], query)

RECURSIVE SearchIndex(_, _)
SearchIndex(index, query) ==
    IF index = <<>> THEN <<>>
    ELSE (IF SearchHit(query, Text(index[1].key)) THEN <<index[1].data.item>> ELSE <<>>)
         \o SearchIndex(Tail(index), query)

\* search_items
search_items(mgr, query) == SearchIndex(mgr.item_index, Lower(Text(query)))

None == [none |-> TRUE]

FirstOrNone(results) == IF results = <<>> THEN None ELSE results[1]

\* get_item_by_name: the indexed entry of item_name.lower(), else the first
\* result of search_items, else None
get_item_by_name(mgr, item_name) ==
    IF \E i \in 1..Len(mgr.item_index) : Text(mgr.item_index[i].key) = Lower(Text(item_name))
    THEN LET i == CHOOSE i \in 1..Len(mgr.item_index) :
                     Text(mgr.item_index[i].key) = Lower(Text(item_name))
         IN mgr.item_index[i].data.item
    ELSE FirstOrNone(search_items(mgr, item_name))

\* sum(item.get("price", 0) * item.get("quantity", 1) for item in items):
\* floats added from the left, beginning with 0
RECURSIVE SumLines(_, _)
SumLines(acc, items) ==
    IF items = <<>> THEN acc
    ELSE SumLines(FloatAdd(acc, FloatMul(FloatOfRatio(items[1].price, 100),
                                         FloatOfInt(items[1].quantity))),
                  Tail(items))

\* calculate_total, in cents.  Ontario HST: 13%
calculate_total(items, include_tax) ==
    LET subtotal == SumLines(FloatZero, items)
        tax == FloatMul(subtotal, FloatOfRatio(13, 100))
    IN IF include_tax
       THEN RoundCents(FloatAdd(subtotal, tax))
       ELSE RoundCents(subtotal)

(***************************************************************************)
(* OrderProcessor.extract_items_from_conversation                          *)
(***************************************************************************)
\* item_patterns: (pattern, item_name), in the order of the list
item_patterns ==
    << [pattern |-> <<"c","a","l","i","f","o","r","n","i","a"," ","r","o","l","l">>, item_name |-> "California Roll"],
       [pattern |-> <<"s","a","l","m","o","n"," ","r","o","l","l">>, item_name |-> "Salmon Roll"],
       [pattern |-> <<"t","u","n","a"," ","r","o","l","l">>, item_name |-> "Tuna Roll"],
       [pattern |-> <<"m","i","s","o"," ","s","o","u","p">>, item_name |-> "Miso Soup"],
       [pattern |-> <<"e","d","a","m","a","m","e">>, item_name |-> "Edamame"],
       [pattern |-> <<"c","h","i","c","k","e","n"," ","t","e","r","i","y","a","k","i">>, item_name |-> "Chicken Teriyaki"],
       [pattern |-> <<"s","a","l","m","o","n"," ","s","u","s","h","i">>, item_name |-> "Salmon Sushi"],
       [pattern |-> <<"t","u","n","a"," ","s","u","s","h","i">>, item_name |-> "Tuna Sushi"] >>

Digits == <<"0","1","2","3","4","5","6","7","8","9">>

\* the regular expression class \w
WordChars ==
    {LowerCase[i] : i \in 1..26} \cup {UpperCase[i] : i \in 1..26}
    \cup {Digits[i] : i \in 1..10} \cup {"_"}

IsWordChar(ch) == ch \in WordChars

\* the text of the messages whose role is user or assistant, joined by " "
RECURSIVE SpokenContents(_)
SpokenContents(conversation) ==
    IF conversation = <<>> THEN <<>>
    ELSE (IF conversation[1].role \in {"user", "assistant"}
          THEN <<conversation[1].content>> ELSE <<>>)
         \o SpokenContents(Tail(conversation))

\* re.search(rf"(\w+)\s+{pattern}", text): the places p where the pattern
\* stands after a run of whitespace that follows a word character
QtyMatchAt(text, pattern, p) ==
    /\ p >= 3
    /\ p + Len(pattern) - 1 <= Len(text)
    /\ IsSpace(text[p - 1])
    /\ SubSeq(text, p, p + Len(pattern) - 1) = pattern
    /\ \E q \in 1..(p - 2) :
          /\ IsWordChar(text[q])
          /\ \A k \in (q + 1)..(p - 1) : IsSpace(text[k])

\* group(1) of the leftmost match: the run of word characters that ends
\* before the whitespace, or <<>> when nothing matches
QtyWord(text, pattern) ==
    IF \E p \in 1..Len(text) : QtyMatchAt(text, pattern, p)
    THEN LET p == CHOOSE p \in 1..Len(text) :
                     /\ QtyMatchAt(text, pattern, p)
                     /\ \A r \in 1..(p - 1) : ~QtyMatchAt(text, pattern, r)
             q == CHOOSE q \in 1..(p - 2) :
                     /\ IsWordChar(text[q])
                     /\ \A k \in (q + 1)..(p - 1) : IsSpace(text[k])
             s == CHOOSE s \in 1..q :
                     /\ \A k \in s..q : IsWordChar(text[k])
                     /\ (s = 1 \/ ~IsWordChar(text[s - 1]))
         IN SubSeq(text, s, q)
    ELSE <<>>

\* the quantity read at the first occurrence of the pattern and nowhere else
QuantityFirstOccurrence(text, pattern) ==
    LET first == CHOOSE p \in 1..Len(text) :
                     /\ SubSeq(text, p, p + Len(pattern) - 1) = pattern
                     /\ \A r \in 1..(p - 1) : SubSeq(text, r, r + Len(pattern) - 1) # pattern
        w == IF QtyMatchAt(text, pattern, first)
             THEN QtyWord(SubSeq(text, 1, first + Len(pattern) - 1), pattern)
             ELSE <<>>
    IN CASE w = <<"o","n","e">> -> 1
         [] w = <<"t","w","o">> -> 2
         [] w = <<"t","h","r","e","e">> -> 3
         [] w = <<"f","o","u","r">> -> 4
         [] w = <<"f","i","v","e">> -> 5
         [] OTHER -> 1

\* qty_map.get(qty_word, 1), and 1 when the expression does not match
Quantity(text, pattern) ==
    LET w == QtyWord(text, pattern) IN
    CASE w = <<"o","n","e">> -> 1
      [] w = <<"t","w","o">> -> 2
      [] w = <<"t","h","r","e","e">> -> 3
      [] w = <<"f","o","u","r">> -> 4
      [] w = <<"f","i","v","e">> -> 5
      [] OTHER -> 1

\* the loop over item_patterns; menu_item["price"] raises KeyError on an item
\* dict without the key, and the exception ends the function
RECURSIVE ExtractFrom(_, _, _)
ExtractFrom(mgr, text, patterns) ==
    IF patterns = <<>> THEN [raised |-> "none", items |-> <<>>]
    ELSE LET pat == patterns[1]
             menu_item == get_item_by_name(mgr, pat.item_name)
         IN IF Contains(text, pat.pattern) /\ menu_item # None
            THEN IF "price" \notin DOMAIN menu_item
                 THEN [raised |-> "KeyError", items |-> <<>>]
                 ELSE LET rest == ExtractFrom(mgr, text, Tail(patterns)) IN
                      [raised |-> rest.raised,
                       items |-> IF rest.raised # "none" THEN <<>>
                                 ELSE << [name |-> menu_item.name,
                                          price |-> menu_item.price,
                                          quantity |-> Quantity(text, pat.pattern),
                                          modifications |-> ""] >> \o rest.items]
            ELSE ExtractFrom(mgr, text, Tail(patterns))

extract_items_from_conversation(mgr, conversation_history) ==
    ExtractFrom(mgr, Lower(Join(SpokenContents(conversation_history))), item_patterns)

(***************************************************************************)
(* The bots: system prompts, order data, the webhook.                      *)
(***************************************************************************)
\* get_enhanced_restaurant_prompt: the lines of the prompt that hold a
\* telephone number, a menu item, a fulfillment word, a name or a
\* completion phrase (lines 129, 149, 199, 215, 240, 241)
EnhancedPrompt ==
    <<"P","h","o","n","e",":"," ","5","1","9","-","9","8","8","-","1","6","8","8","\n">>
    \o <<"C","a","l","i","f","o","r","n","i","a"," ","R","o","l","l"," ","$","7",".","2","8","\n">>
    \o <<"T","h","i","s"," ","i","s"," ","H","a","n","a","."," ","A","r","e"," ","y","o","u"," ","l","o","o","k","i","n","g"," ","f","o","r"," ","d","i","n","e","-","i","n",","," ","t","a","k","e","o","u","t",","," ","o","r"," ","d","e","l","i","v","e","r","y"," ","t","o","d","a","y","?","\n">>
    \o <<"G","e","t"," ","f","u","l","l"," ","n","a","m","e"," ","a","n","d"," ","p","h","o","n","e"," ","n","u","m","b","e","r","\n">>
    \o <<"s","a","y"," ","L","e","t"," ","m","e"," ","p","r","o","c","e","s","s"," ","t","h","i","s"," ","o","r","d","e","r"," ","f","o","r"," ","y","o","u","\n">>
    \o <<"Y","o","u","r"," ","o","r","d","e","r"," ","i","s"," ","b","e","i","n","g"," ","p","r","e","p","a","r","e","d",".","\n">>

\* RESTAURANT_SYSTEM_PROMPT: its lines 47, 52, 77, 80
BasicPrompt ==
    <<"A","s","k"," ","i","f"," ","t","h","e","y"," ","w","a","n","t"," ","d","i","n","e","-","i","n",","," ","t","a","k","e","o","u","t",","," ","o","r"," ","d","e","l","i","v","e","r","y","\n">>
    \o <<"G","e","t"," ","c","u","s","t","o","m","e","r"," ","d","e","t","a","i","l","s"," ","(","f","u","l","l"," ","n","a","m","e",","," ","p","h","o","n","e"," ","n","u","m","b","e","r",")","\n">>
    \o <<"s","a","y"," ","L","e","t"," ","m","e"," ","p","r","o","c","e","s","s"," ","t","h","i","s"," ","o","r","d","e","r"," ","f","o","r"," ","y","o","u","\n">>
    \o <<"Y","o","u","r"," ","o","r","d","e","r"," ","t","o","t","a","l"," ","i","s"," ","$","X",".","X","X"," ","i","n","c","l","u","d","i","n","g"," ","t","a","x","."," ","I","t"," ","w","i","l","l"," ","b","e"," ","r","e","a","d","y"," ","f","o","r"," ","p","i","c","k","u","p","\n">>

\* the greeting restaurant_bot appends when the client connects
BasicGreeting ==
    <<"H","e","l","l","o","!"," ","T","h","a","n","k"," ","y","o","u"," ","f","o","r"," ","c","a","l","l","i","n","g"," ","O","i","s","h","i","i"," ","S","u","s","h","i"," ","W","i","n","d","s","o","r","."," ","M","y"," ","n","a","m","e"," ","i","s"," ","H","a","n","a",","," ">>
    \o <<"a","n","d"," ","I","'","m"," ","h","e","r","e"," ","t","o"," ","h","e","l","p"," ","y","o","u"," ","p","l","a","c","e"," ","y","o","u","r"," ","o","r","d","e","r","."," ">>
    \o <<"A","r","e"," ","y","o","u"," ","l","o","o","k","i","n","g"," ","f","o","r"," ","d","i","n","e","-","i","n",","," ","t","a","k","e","o","u","t",","," ","o","r"," ","d","e","l","i","v","e","r","y"," ","t","o","d","a","y","?">>

\* What the speech pipeline can append to the context of a call.
Utterances ==
    { "two california roll", "a Tuna Roll for delivery", "Dining in",
      "Thank you for your order" }

\* Further things said, for the functions that are applied to a conversation.
MoreUtterances ==
    { "my name is hana tanaka, 226-555-0199", "california roll",
      "five salmon roll and three california roll", "miso soup and edamame" }

\* The messages of a context.  The state holds a message by its name; this is
\* the dict {"role": ..., "content": ...} that the name stands for.
Message(b, m) ==
    CASE m = "system" ->
           [role |-> "system",
            content |-> IF b = "enhanced" THEN EnhancedPrompt ELSE BasicPrompt]
      [] m = "greeting" -> [role |-> "assistant", content |-> BasicGreeting]
      [] m = "two california roll" ->
           [role |-> "user", content |-> <<"t","w","o"," ","c","a","l","i","f","o","r","n","i","a"," ","r","o","l","l">>]
      [] m = "a Tuna Roll for delivery" ->
           [role |-> "user", content |-> <<"a"," ","T","u","n","a"," ","R","o","l","l"," ","f","o","r"," ","d","e","l","i","v","e","r","y">>]
      [] m = "Dining in" -> [role |-> "user", content |-> <<"D","i","n","i","n","g"," ","i","n">>]
      [] m = "Thank you for your order" ->
           [role |-> "assistant", content |-> <<"T","h","a","n","k"," ","y","o","u"," ","f","o","r"," ","y","o","u","r"," ","o","r","d","e","r">>]
      [] m = "my name is hana tanaka, 226-555-0199" ->
           [role |-> "user", content |-> <<"m","y"," ","n","a","m","e"," ","i","s"," ","h","a","n","a"," ","t","a","n","a","k","a",","," ","2","2","6","-","5","5","5","-","0","1","9","9">>]
      [] m = "california roll" -> [role |-> "user", content |-> <<"c","a","l","i","f","o","r","n","i","a"," ","r","o","l","l">>]
      [] m = "five salmon roll and three california roll" ->
           [role |-> "assistant",
            content |-> <<"f","i","v","e"," ","s","a","l","m","o","n"," ","r","o","l","l"," ","a","n","d"," ","t","h","r","e","e"," ","c","a","l","i","f","o","r","n","i","a"," ","r","o","l","l">>]
      [] m = "miso soup and edamame" ->
           [role |-> "user", content |-> <<"m","i","s","o"," ","s","o","u","p"," ","a","n","d"," ","e","d","a","m","a","m","e">>]

\* conversation = messages.copy()
Conversation(b, msgs) == [i \in 1..Len(msgs) |-> Message(b, msgs[i])]

\* order_completion_indicators of enhanced_restaurant_bot
EnhancedCompletionIndicators ==
    << <<"p","r","o","c","e","s","s"," ","t","h","i","s"," ","o","r","d","e","r">>, <<"o","r","d","e","r"," ","t","o","t","a","l">>, <<"r","e","a","d","y"," ","f","o","r"," ","p","i","c","k","u","p">>,
       <<"t","h","a","n","k"," ","y","o","u"," ","f","o","r"," ","y","o","u","r"," ","o","r","d","e","r">>, <<"b","e","i","n","g"," ","p","r","e","p","a","r","e","d">>, <<"s","t","a","r","t"," ","p","r","e","p","a","r","i","n","g">> >>

\* the phrase list of restaurant_bot
BasicCompletionIndicators ==
    << <<"p","r","o","c","e","s","s"," ","t","h","i","s"," ","o","r","d","e","r">>, <<"o","r","d","e","r"," ","t","o","t","a","l">>, <<"r","e","a","d","y"," ","f","o","r"," ","p","i","c","k","u","p">>,
       <<"t","h","a","n","k"," ","y","o","u"," ","f","o","r"," ","y","o","u","r"," ","o","r","d","e","r">> >>

CompletionIndicators(b) ==
    IF b = "enhanced" THEN EnhancedCompletionIndicators ELSE BasicCompletionIndicators

RECURSIVE Contents(_)
Contents(conversation) ==
    IF conversation = <<>> THEN <<>>
    ELSE <<conversation[1].content>> \o Contents(Tail(conversation))

\* " ".join([msg["content"] for msg in conversation]): every message
ConversationText(conversation) == Join(Contents(conversation))

\* any(phrase in conversation_text.lower() for phrase in indicators)
AnyPhraseIn(text, phrases) ==
    \E k \in 1..Len(phrases) : Contains(text, phrases[k])

OrderComplete(b, conversation) ==
    AnyPhraseIn(Lower(ConversationText(conversation)), CompletionIndicators(b))

\* an inference in which the delivery test comes before the dine-in test
OrderTypeDeliveryFirst(conversation_text) ==
    IF Contains(conversation_text, <<"d","e","l","i","v","e","r","y">>) THEN "delivery"
    ELSE IF Contains(conversation_text, <<"d","i","n","e"," ","i","n">>) \/ Contains(conversation_text, <<"d","i","n","i","n","g"," ","i","n">>)
    THEN "dine-in"
    ELSE "takeout"

\* (datetime.now() + timedelta(minutes=20)).isoformat(): the clock is not a
\* part of the model, the field is held as the expression that gives it
ReadyTime == "now + 20 minutes"

\* create_order_data: order_type
OrderType(conversation_text) ==
    IF Contains(conversation_text, <<"d","i","n","e"," ","i","n">>) \/ Contains(conversation_text, <<"d","i","n","i","n","g"," ","i","n">>)
    THEN "dine-in"
    ELSE IF Contains(conversation_text, <<"d","e","l","i","v","e","r","y">>) THEN "delivery"
    ELSE "takeout"

\* create_order_data: special_instructions
SpecialInstructions(conversation_text) ==
    IF \/ Contains(conversation_text, <<"e","x","t","r","a">>)
       \/ Contains(conversation_text, <<"n","o"," ">>)
       \/ Contains(conversation_text, <<"w","i","t","h","o","u","t">>)
    THEN "See conversation for special requests"
    ELSE ""

\* str.upper() on one character
ToUpper ==
    [ch \in {LowerCase[i] : i \in 1..26} |->
        UpperCase[CHOOSE i \in 1..26 : LowerCase[i] = ch]]

IsLetter(ch) == ch \in DOMAIN ToLower \/ ch \in DOMAIN ToUpper

\* str.title(): a letter after a character that is no letter is upper-cased,
\* every other letter is lower-cased
Title(s) ==
    IF s = <<>> THEN <<>>
    ELSE [i \in 1..Len(s) |->
            IF i = 1 \/ ~IsLetter(s[i - 1])
            THEN (IF s[i] \in DOMAIN ToUpper THEN ToUpper[s[i]] ELSE s[i])
            ELSE LowerChar(s[i])]

IsDigit(ch) == ch \in {Digits[i] : i \in 1..10}

\* \d{n} at place p
DigitsAt(text, p, n) ==
    /\ p + n - 1 <= Len(text)
    /\ \A k \in p..(p + n - 1) : IsDigit(text[k])

\* [-.]? at place p: the number of characters it takes
SepLen(text, p) == IF p <= Len(text) /\ text[p] \in {"-", "."} THEN 1 ELSE 0

\* phone_pattern \b(\d{3}[-.]?\d{3}[-.]?\d{4})\b tried at place p: the place
\* of the last character of the match, or 0 when it does not match there
PhoneEnd(text, p) ==
    IF ~IsDigit(text[p]) THEN 0
    ELSE LET b == p + 3 + SepLen(text, p + 3)
             d == b + 3 + SepLen(text, b + 3)
         IN IF /\ (p = 1 \/ ~IsWordChar(text[p - 1]))
               /\ DigitsAt(text, p, 3)
               /\ DigitsAt(text, b, 3)
               /\ DigitsAt(text, d, 4)
               /\ (d + 4 > Len(text) \/ ~IsWordChar(text[d + 4]))
            THEN d + 3
            ELSE 0

\* re.search(phone_pattern, conversation_text): group(1) of the leftmost
\* match, or <<>> when there is none (customer_info["phone"] stays "")
PhoneOf(text) ==
    IF \E p \in 1..Len(text) : PhoneEnd(text, p) > 0
    THEN LET p == CHOOSE p \in 1..Len(text) :
                     /\ PhoneEnd(text, p) > 0
                     /\ \A r \in 1..(p - 1) : PhoneEnd(text, r) = 0
         IN SubSeq(text, p, PhoneEnd(text, p))
    ELSE <<>>

\* name_patterns, in the order of the list: the literal text (matched with
\* re.IGNORECASE) and whether [''s]*\s+ follows it
name_patterns ==
    << [literal |-> <<"m","y"," ","n","a","m","e"," ","i","s"," ">>, possessive |-> FALSE],
       [literal |-> <<"t","h","i","s"," ","i","s"," ">>, possessive |-> FALSE],
       [literal |-> <<"n","a","m","e">>, possessive |-> TRUE] >>

\* the first place from i on whose character is not in the set, Len + 1
\* when there is none: where a greedy run of the set ends
SkipWhile(text, i, set) ==
    CHOOSE j \in i..(Len(text) + 1) :
        /\ (j = Len(text) + 1 \/ text[j] \notin set)
        /\ \A k \in i..(j - 1) : text[k] \in set

\* a literal of a pattern at place p, without regard to case
LiteralAt(text, p, literal) ==
    /\ p + Len(literal) - 1 <= Len(text)
    /\ LowerChar(text[p]) = literal[1]
    /\ Lower(SubSeq(text, p, p + Len(literal) - 1)) = literal

\* a name pattern tried at place p: the place where its group begins, or 0
\* when it does not match there
NameGroupStart(text, p, pat) ==
    IF ~LiteralAt(text, p, pat.literal) THEN 0
    ELSE LET a == p + Len(pat.literal) IN
         IF ~pat.possessive
         THEN (IF a <= Len(text) /\ IsWordChar(text[a]) THEN a ELSE 0)
         ELSE LET b == SkipWhile(text, a, {"'", "s", "S"})
                  w == SkipWhile(text, b, {" ", "\n", "\t"})
              IN IF w > b /\ w <= Len(text) /\ IsWordChar(text[w]) THEN w ELSE 0

\* the group (\w+(?:\s+\w+)?) from place g on: one word, and a second one
\* when whitespace and a word character follow
NameGroup(text, g) ==
    LET e == SkipWhile(text, g, WordChars)
        w == SkipWhile(text, e, {" ", "\n", "\t"})
    IN IF w > e /\ w <= Len(text) /\ IsWordChar(text[w])
       THEN SubSeq(text, g, SkipWhile(text, w, WordChars) - 1)
       ELSE SubSeq(text, g, e - 1)

\* re.search(pattern, conversation_text, re.IGNORECASE).group(1), or <<>>
NameMatch(text, pat) ==
    IF \E p \in 1..Len(text) : NameGroupStart(text, p, pat) > 0
    THEN LET p == CHOOSE p \in 1..Len(text) :
                     /\ NameGroupStart(text, p, pat) > 0
                     /\ \A r \in 1..(p - 1) : NameGroupStart(text, r, pat) = 0
         IN NameGroup(text, NameGroupStart(text, p, pat))
    ELSE <<>>

\* the loop over name_patterns: the first pattern that matches gives the
\* name, title-cased; "" when none matches
RECURSIVE NameOf(_, _)
NameOf(text, patterns) ==
    IF patterns = <<>> THEN <<>>
    ELSE IF NameMatch(text, patterns[1]) # <<>>
         THEN Title(NameMatch(text, patterns[1]))
         ELSE NameOf(text, Tail(patterns))

\* EnhancedOrderProcessor.extract_customer_info: it reads every message
extract_customer_info(conversation) ==
    LET text == ConversationText(conversation) IN
    [name |-> Str(NameOf(text, name_patterns)),
     phone |-> Str(PhoneOf(text)),
     email |-> ""]

\* EnhancedOrderProcessor.create_order_data
create_order_data(mgr, conversation) ==
    LET ex == extract_items_from_conversation(mgr, conversation)
        text == Lower(ConversationText(conversation))
    IN [raised |-> ex.raised,
        customer |-> extract_customer_info(conversation),
        items |-> ex.items,
        order_type |-> OrderType(text),
        special_instructions |-> SpecialInstructions(text),
        estimated_ready_time |-> ReadyTime]

\* RestaurantOrderProcessor.parse_order_from_conversation
parse_order_from_conversation(conversation) ==
    [raised |-> "none",
     customer |-> [name |-> "", phone |-> "", email |-> ""],
     items |-> IF Contains(Lower(Join(SpokenContents(conversation))), <<"c","a","l","i","f","o","r","n","i","a"," ","r","o","l","l">>)
               THEN << [name |-> "California Roll", price |-> 1299,
                        quantity |-> 1, modifications |-> ""] >>
               ELSE <<>>,
     order_type |-> "takeout",
     special_instructions |-> "",
     estimated_ready_time |-> ReadyTime]

OrderData(b, mgr, conversation) ==
    IF b = "enhanced" THEN create_order_data(mgr, conversation)
    ELSE parse_order_from_conversation(conversation)

\* What the webhook can answer to one POST.
Responses ==
    { [kind |-> "http", status |-> 200, body |-> "json_object"],
      [kind |-> "http", status |-> 200, body |-> "json_empty"],
      [kind |-> "http", status |-> 201, body |-> "json_object"],
      [kind |-> "http", status |-> 500, body |-> "not_json"],
      [kind |-> "transport_error", status |-> 0, body |-> "none"] }

\* send_order_to_n8n: the value returned for an answer.  response.json()
\* raises on a body that is not JSON; every exception is caught and gives None.
SendResult(resp) ==
    IF resp.kind = "http" /\ resp.status = 200 /\ resp.body # "not_json"
    THEN resp.body
    ELSE "None"

\* `if result:` in the handler: None and the empty JSON object are false
Truthy(res) == res \notin {"None", "json_empty"}

\* a handler that sends whatever was extracted
HasItemsAlways(order_data) == TRUE

\* `if order_data["items"]:`  Only send if there are items
HasItems(order_data) == order_data.items # <<>>

\* what the handler logs after the POST
SendOutcome(res) == IF Truthy(res) THEN "success" ELSE "failed"

NoOrder == [raised |-> "none", customer |-> [name |-> "", phone |-> "", email |-> ""],
            items |-> <<>>, order_type |-> "none",
            special_instructions |-> "", estimated_ready_time |-> ""]
NoResponse == [kind |-> "none", status |-> 0, body |-> "none"]

\* The run of on_client_disconnected up to its first await on the webhook,
\* or to task.cancel() when nothing is sent.
HandlerStart(b, mgr, conversation) ==
    IF OrderComplete(b, conversation)
    THEN LET od == OrderData(b, mgr, conversation) IN
         IF od.raised # "none"
         THEN [pc |-> "done", order |-> NoOrder, response |-> NoResponse,
               outcome |-> "error"]
         ELSE IF HasItems(od)
         THEN [pc |-> "awaiting_sink", order |-> od, response |-> NoResponse,
               outcome |-> "none"]
         ELSE [pc |-> "done", order |-> od, response |-> NoResponse,
               outcome |-> "no_items"]
    ELSE [pc |-> "done", order |-> NoOrder, response |-> NoResponse,
          outcome |-> "not_complete"]

\* a handler in which a failed submission escapes as an exception, so that
\* the run ends before task.cancel()
HandlerResumeRaising(h, resp) ==
    IF Truthy(SendResult(resp))
    THEN [h EXCEPT !.pc = "done", !.response = resp, !.outcome = "success"]
    ELSE [h EXCEPT !.pc = "raised", !.response = resp, !.outcome = "failed"]

\* a handler that posts the order again after a failed submission
HandlerResumeRetrying(h, resp) ==
    IF Truthy(SendResult(resp))
    THEN [h EXCEPT !.pc = "done", !.response = resp, !.outcome = "success"]
    ELSE [h EXCEPT !.pc = "awaiting_sink", !.response = resp, !.outcome = "failed"]

\* The rest of the run once the webhook has answered: the outcome is
\* logged and the handler goes on to task.cancel().
HandlerResume(h, resp) ==
    [h EXCEPT !.pc = "done", !.response = resp,
              !.outcome = SendOutcome(SendResult(resp))]

(***************************************************************************)
(* The catalog specification: a menu manager is constructed from the files *)
(* and one of its functions is applied to an argument.                     *)
(***************************************************************************)
Calls == {1, 2}
\* the calls that are placed
ActiveCalls == {1}

vars == <<files, menu_manager, enhanced_order_processor, result, bot, phase, messages, handlers, sinkLog, cancelled>>

NoResult == [op |-> "none", arg |-> "", val |-> <<>>]

\* every item dict of a menu, with its category
MenuEntries(menu) ==
    UNION { { [category |-> menu[c].category, item |-> menu[c].items[i]] :
                i \in 1..Len(menu[c].items) } : c \in 1..Len(menu) }

AllMenuItems == UNION { { e.item : e \in MenuEntries(m) } : m \in Menus }

Queries ==
    { "", "California Roll", "Tuna Roll", "roll", "Miso Soup" }
    \cup { Str(Lower(Text(it.name))) : it \in AllMenuItems }

InitCatalog ==
    /\ files \in [primary : PrimaryFiles, fallback : FallbackFiles]
    /\ menu_manager = Unloaded
    /\ enhanced_order_processor = [menu_manager |-> Unloaded]
    /\ result = NoResult
    /\ bot = "enhanced"
    /\ phase = [c \in Calls |-> "new"]
    /\ messages = [c \in Calls |-> <<"system">>]
    /\ handlers = [c \in Calls |-> <<>>]
    /\ sinkLog = [c \in Calls |-> <<>>]
    /\ cancelled = [c \in Calls |-> 0]

\* initialize_menu_manager: menu_manager = OishiiMenuManager(menu_file_path)
InitializeMenuManager ==
    /\ menu_manager.state = "unloaded"
    /\ menu_manager' = NewMenuManager(files)
    /\ UNCHANGED <<files, enhanced_order_processor, result, bot, phase, messages, handlers, sinkLog, cancelled>>

GetItemByName(q) ==
    /\ menu_manager.state = "loaded"
    /\ result = NoResult
    /\ result' = [op |-> "get_item_by_name", arg |-> q,
                  val |-> get_item_by_name(menu_manager, q)]
    /\ UNCHANGED <<files, menu_manager, enhanced_order_processor, bot, phase, messages, handlers, sinkLog, cancelled>>

SearchItems(q) ==
    /\ menu_manager.state = "loaded"
    /\ result = NoResult
    /\ result' = [op |-> "search_items", arg |-> q,
                  val |-> search_items(menu_manager, q)]
    /\ UNCHANGED <<files, menu_manager, enhanced_order_processor, bot, phase, messages, handlers, sinkLog, cancelled>>

\* the contexts extraction is applied to: the system message and what was said
Transcripts ==
    UNION { { <<"system">> \o t : t \in [1..n -> Utterances \cup MoreUtterances] } :
              n \in 0..MaxUtterances }

ExtractItems(msgs) ==
    /\ menu_manager.state = "loaded"
    /\ result = NoResult
    /\ result' = [op |-> "extract_items_from_conversation", arg |-> msgs,
                  val |-> extract_items_from_conversation(menu_manager,
                                                          Conversation(bot, msgs))]
    /\ UNCHANGED <<files, menu_manager, enhanced_order_processor, bot, phase, messages, handlers, sinkLog, cancelled>>

ExtractCustomerInfo(msgs) ==
    /\ menu_manager.state = "loaded"
    /\ result = NoResult
    /\ result' = [op |-> "extract_customer_info", arg |-> msgs,
                  val |-> extract_customer_info(Conversation(bot, msgs))]
    /\ UNCHANGED <<files, menu_manager, enhanced_order_processor, bot, phase, messages, handlers, sinkLog, cancelled>>

\* the item lists calculate_total is applied to: at most two lines, prices
\* in whole cents, quantities 1 and 2
PricedLines == [price : {50, 250, 398, 550, 728}, quantity : {1, 2}]

PricedLists ==
    {<<>>} \cup {<<l>> : l \in PricedLines}
    \cup {<<l1, l2>> : l1 \in PricedLines, l2 \in PricedLines}

\* calculate_total(items, include_tax=False) and calculate_total(items)
CalculateTotal(items) ==
    /\ menu_manager.state = "loaded"
    /\ result = NoResult
    /\ result' = [op |-> "calculate_total", arg |-> items,
                  val |-> [subtotal |-> calculate_total(items, FALSE),
                           total |-> calculate_total(items, TRUE)]]
    /\ UNCHANGED <<files, menu_manager, enhanced_order_processor, bot, phase, messages, handlers, sinkLog, cancelled>>

NextCatalog ==
    \/ InitializeMenuManager
    \/ \E q \in Queries : GetItemByName(q)
    \/ \E q \in Queries : SearchItems(q)
    \/ \E msgs \in Transcripts : ExtractItems(msgs)
    \/ \E msgs \in Transcripts : ExtractCustomerInfo(msgs)
    \/ \E items \in PricedLists : CalculateTotal(items)

SpecCatalog == InitCatalog /\ [][NextCatalog]_vars

(***************************************************************************)
(* The call specification: one bot process, its menu manager constructed   *)
(* at import, and the telephone calls it serves.                           *)
(***************************************************************************)
Init ==
    /\ bot \in {"enhanced", "basic"}
    /\ IF bot = "enhanced"
       THEN /\ files \in [primary : {FileMenu(MenuStandard), FileMenu(MenuSpecial),
                                     FileMenu(MenuNoPriceKey)},
                          fallback : {FileMissing}]
            /\ menu_manager = NewMenuManager(files)
            /\ enhanced_order_processor = [menu_manager |-> menu_manager]
       ELSE /\ files = [primary |-> FileMissing, fallback |-> FileMissing]
            /\ menu_manager = Unloaded
            /\ enhanced_order_processor = [menu_manager |-> Unloaded]
    /\ result = NoResult
    /\ phase = [c \in Calls |-> "new"]
    /\ messages = [c \in Calls |-> <<"system">>]
    /\ handlers = [c \in Calls |-> <<>>]
    /\ sinkLog = [c \in Calls |-> <<>>]
    /\ cancelled = [c \in Calls |-> 0]

\* the messages lists a call can have when it is disconnected
Contexts(b) ==
    UNION { { (IF b = "basic" THEN <<"system", "greeting">> ELSE <<"system">>) \o t :
                t \in [1..n -> Utterances] } : n \in 0..MaxUtterances }

\* the menu managers an order processor can hold
ManagersOf(b) ==
    IF b = "basic" THEN {Unloaded}
    ELSE { NewMenuManager([primary |-> FileMenu(m), fallback |-> FileMissing]) :
             m \in {MenuStandard, MenuSpecial, MenuNoPriceKey} }

\* The order data and the run of the handler are functions of the bot, the
\* menu manager of its processor and the messages: their values, computed
\* once for every argument.
OrderDataOf ==
    [b \in {"enhanced", "basic"} |->
       [mgr \in ManagersOf(b) |->
          [msgs \in Contexts(b) |-> OrderData(b, mgr, Conversation(b, msgs))]]]

HandlerStartOf ==
    [b \in {"enhanced", "basic"} |->
       [mgr \in ManagersOf(b) |->
          [msgs \in Contexts(b) |-> HandlerStart(b, mgr, Conversation(b, msgs))]]]

\* one list for every call, held by the module
ContextShared(c) == messages[1]

\* the messages list of the call: a local of the run that serves the call,
\* which its on_client_disconnected closes over
ContextOf(c) == messages[c]

\* session.post(N8N_WEBHOOK_URL, json=order_data): a handler that has come
\* to the await on the webhook has posted its order
Posted(h) == IF h.pc = "awaiting_sink" THEN <<h.order>> ELSE <<>>

\* on_client_connected
Connect(c) ==
    /\ phase[c] = "new"
    /\ phase' = [phase EXCEPT ![c] = "connected"]
    /\ messages' = [messages EXCEPT ![c] =
          IF bot = "basic"
          THEN Append(@, "greeting")
          ELSE @]
    /\ UNCHANGED <<files, menu_manager, enhanced_order_processor, result, bot, handlers, sinkLog, cancelled>>

\* the context aggregators append what was said
Utter(c, u) ==
    /\ phase[c] = "connected"
    /\ Cardinality({i \in 1..Len(messages[c]) : messages[c][i] \in Utterances}) < MaxUtterances
    /\ messages' = [messages EXCEPT ![c] = Append(@, u)]
    /\ UNCHANGED <<files, menu_manager, enhanced_order_processor, result, bot, phase, handlers, sinkLog, cancelled>>

\* the transport fires on_client_disconnected
Disconnect(c) ==
    /\ phase[c] \in {"connected", "disconnected"}
    /\ Len(handlers[c]) < MaxFirings
    /\ LET h == HandlerStartOf[bot][enhanced_order_processor.menu_manager][ContextOf(c)] IN
       /\ handlers' = [handlers EXCEPT ![c] = Append(@, h)]
       /\ sinkLog' = [sinkLog EXCEPT ![c] = @ \o Posted(h)]
       /\ cancelled' = [cancelled EXCEPT ![c] = IF h.pc = "done" THEN @ + 1 ELSE @]
    /\ phase' = [phase EXCEPT ![c] = "disconnected"]
    /\ UNCHANGED <<files, menu_manager, enhanced_order_processor, result, bot, messages>>

\* the webhook answers (or the request fails) and the handler finishes
SinkRespond(c, i, resp) ==
    /\ i \in 1..Len(handlers[c])
    /\ handlers[c][i].pc = "awaiting_sink"
    /\ LET h == HandlerResume(handlers[c][i], resp) IN
       /\ handlers' = [handlers EXCEPT ![c][i] = h]
       /\ sinkLog' = [sinkLog EXCEPT ![c] = @ \o Posted(h)]
       /\ cancelled' = [cancelled EXCEPT ![c] = IF h.pc = "done" THEN @ + 1 ELSE @]
    /\ UNCHANGED <<files, menu_manager, enhanced_order_processor, result, bot, phase, messages>>

Next ==
    \/ \E c \in ActiveCalls : Connect(c)
    \/ \E c \in ActiveCalls : \E u \in Utterances : Utter(c, u)
    \/ \E c \in ActiveCalls : Disconnect(c)
    \/ \E c \in ActiveCalls : \E i \in 1..MaxFirings : \E resp \in Responses :
          SinkRespond(c, i, resp)

Spec == Init /\ [][Next]_vars

\* aiohttp ends every request with an answer or an exception (its default
\* total timeout), and the event loop resumes the handler that awaits it
FairSpec ==
    Spec /\ \A c \in ActiveCalls : \A i \in 1..MaxFirings :
                WF_vars(\E resp \in Responses : SinkRespond(c, i, resp))

(***************************************************************************)
(* Two calls served at once by one bot process.  Each call has its own run *)
(* of run_enhanced_restaurant_bot (its messages, its handlers); the order  *)
(* processor and its menu manager are the module's.  The event loop runs   *)
(* one handler at a time up to its next await, so the steps of the two     *)
(* calls interleave at the awaits on the webhook.                          *)
(***************************************************************************)
InitTwoCalls ==
    /\ bot = "enhanced"
    /\ files = [primary |-> FileMenu(MenuSpecial), fallback |-> FileMissing]
    /\ menu_manager = NewMenuManager(files)
    /\ enhanced_order_processor = [menu_manager |-> menu_manager]
    /\ result = NoResult
    /\ phase = [c \in Calls |-> "new"]
    /\ messages = [c \in Calls |-> <<"system">>]
    /\ handlers = [c \in Calls |-> <<>>]
    /\ sinkLog = [c \in Calls |-> <<>>]
    /\ cancelled = [c \in Calls |-> 0]

UtterancesTwoCalls == { "two california roll", "a Tuna Roll for delivery" }

ResponsesTwoCalls ==
    { [kind |-> "http", status |-> 200, body |-> "json_object"],
      [kind |-> "transport_error", status |-> 0, body |-> "none"] }

UtterTwoCalls(c, u) ==
    /\ Len(messages[c]) - 1 < MaxSaidTwoCalls
    /\ Utter(c, u)

NextTwoCalls ==
    \/ \E c \in Calls : Connect(c)
    \/ \E c \in Calls : \E u \in UtterancesTwoCalls : UtterTwoCalls(c, u)
    \/ \E c \in Calls : Disconnect(c)
    \/ \E c \in Calls : \E i \in 1..MaxFirings : \E resp \in ResponsesTwoCalls :
          SinkRespond(c, i, resp)

SpecTwoCalls == InitTwoCalls /\ [][NextTwoCalls]_vars

(***************************************************************************)
(* The menu file is edited and the menu manager is initialised again while *)
(* the bot serves a call.  The program itself calls initialize_menu_manager*)
(* at import only; this specification shows what a later call of it does.  *)
(***************************************************************************)
\* the standard menu with a new price for the California Roll
MenuRepriced ==
    << [category |-> "Maki Rolls",
        items |-> << [name |-> "California Roll", price |-> 828],
                     [name |-> "Salmon Roll", price |-> 728] >>],
       [category |-> "Sushi",
        items |-> << [name |-> "Salmon Sushi", price |-> 398] >>] >>

\* a re-initialisation that rewrites the item dicts the order lines were
\* taken from, with order lines that are those dicts
ReloadInPlace ==
    /\ bot = "enhanced"
    /\ files.primary # FileMenu(MenuRepriced)
    /\ files' = [files EXCEPT !.primary = FileMenu(MenuRepriced)]
    /\ menu_manager' = NewMenuManager(files')
    /\ LET entries == MenuEntries(MenuRepriced)
           Reprice(line) ==
               IF \E e \in entries : e.item.name = line.name
               THEN [line EXCEPT !.price =
                        (CHOOSE e \in entries : e.item.name = line.name).item.price]
               ELSE line
       IN handlers' = [c \in Calls |->
             [i \in 1..Len(handlers[c]) |->
                [handlers[c][i] EXCEPT !.order.items =
                    [k \in 1..Len(@) |-> Reprice(@[k])]]]]
    /\ UNCHANGED <<enhanced_order_processor, result, bot, phase, messages, sinkLog, cancelled>>

\* initialize_menu_manager called again: the module global is bound to a new
\* OishiiMenuManager; the instance the order processor took at import and
\* the order data of the running handlers are other objects
Reload ==
    /\ bot = "enhanced"
    /\ files.primary # FileMenu(MenuRepriced)
    /\ files' = [files EXCEPT !.primary = FileMenu(MenuRepriced)]
    /\ menu_manager' = NewMenuManager(files')
    /\ UNCHANGED <<enhanced_order_processor, result, bot, phase, messages, handlers, sinkLog, cancelled>>

NextReload == Next \/ Reload

SpecReload == Init /\ [][NextReload]_vars

(***************************************************************************)
(* Properties.                                                             *)
(***************************************************************************)
\* the customer and agent utterances of call c, lower-cased
SpokenTexts(c) ==
    { Lower(Message(bot, messages[c][i]).content) :
        i \in { k \in 1..Len(messages[c]) :
                  Message(bot, messages[c][k]).role \in {"user", "assistant"} } }

\* some utterance of call c contains one of the phrases
Says(c, phrases) == \E t \in SpokenTexts(c) : \E ph \in phrases : Contains(t, ph)

AllCompletionPhrases ==
    { CompletionIndicators(bot)[k] : k \in 1..Len(CompletionIndicators(bot)) }

HandlerIds(c) == 1..Len(handlers[c])

\* the handlers of call c that got order data from the conversation
Extracted(c) == { i \in HandlerIds(c) : handlers[c][i].order # NoOrder }

\* the handlers of call c that assembled an order: order data with items
Assembled(c) == { i \in Extracted(c) : handlers[c][i].order.items # <<>> }

\* C1: however often call-disconnected fires for a call, the webhook is
\* invoked at most once for that call.
C1_AtMostOneSubmissionPerCall == \A c \in Calls : Len(sinkLog[c]) <= 1

\* C2: when no customer or agent utterance contains a completion phrase, a
\* disconnect assembles no order and the webhook is never invoked.
C2_CompletionGate ==
    \A c \in Calls :
        ~Says(c, AllCompletionPhrases) => (Assembled(c) = {} /\ sinkLog[c] = <<>>)

\* C3: the webhook is invoked only with an order that has items; a handler
\* whose extraction gave no lines sends nothing and ends with the outcome
\* "no items", not an error; there is one POST per handler that had items.
C3_OnlyOrdersWithItemsAreSent ==
    \A c \in Calls :
        /\ \A k \in 1..Len(sinkLog[c]) : sinkLog[c][k].items # <<>>
        /\ \A i \in Extracted(c) :
              handlers[c][i].order.items = <<>> =>
                 /\ handlers[c][i].outcome = "no_items"
                 /\ handlers[c][i].pc = "done"
                 /\ handlers[c][i].response = NoResponse
        /\ Len(sinkLog[c]) =
              Cardinality({ i \in HandlerIds(c) : handlers[c][i].order.items # <<>> })

\* a completed conversation without items was disconnected
C3_Witness ==
    \E c \in Calls : \E i \in HandlerIds(c) : handlers[c][i].outcome = "no_items"

\* C4: every run of the disconnect handler ends with task.cancel(), whatever
\* the outcome of order processing: each run that has started is eventually
\* done, and every run that is done has called task.cancel().
C4_TeardownAlwaysProceeds ==
    /\ [](\A c \in Calls :
            cancelled[c] = Cardinality({ i \in HandlerIds(c) : handlers[c][i].pc = "done" }))
    /\ \A c \in Calls : \A i \in 1..MaxFirings :
          (i \in HandlerIds(c)) ~> (i \in HandlerIds(c) /\ handlers[c][i].pc = "done")

\* a submission failed and the task was cancelled all the same
C4_Witness ==
    \E c \in Calls : \E i \in HandlerIds(c) :
        /\ handlers[c][i].outcome = "failed"
        /\ handlers[c][i].pc = "done"
        /\ cancelled[c] >= 1

\* C5: a submission is recorded as a success if and only if the webhook
\* answered with a 2xx status.
C5_SuccessIffStatus2xx ==
    \A c \in Calls : \A i \in HandlerIds(c) :
        handlers[c][i].response # NoResponse =>
           (handlers[c][i].outcome = "success"
              <=> (handlers[c][i].response.kind = "http"
                   /\ handlers[c][i].response.status \in 200..299))

\* the items of the loaded menu
LoadedItems == { e.item : e \in MenuEntries(menu_manager.menu) }

NameHolds(item, query) == Contains(Lower(Text(item.name)), Lower(Text(query)))

\* the canonical item names of the pattern table
CanonicalNames == { item_patterns[k].item_name : k \in 1..Len(item_patterns) }

\* C6 as claimed: get_item_by_name returns an item only when the item's
\* lower-cased name equals the lower-cased query.
C6_ExactLookupOnly ==
    (result.op = "get_item_by_name" /\ result.val # None)
       => Lower(Text(result.val.name)) = Lower(Text(result.arg))

\* C6 as amended: get_item_by_name returns an item of the menu whose
\* lower-cased name contains the lower-cased query, and one whose name equals
\* it when there is one; it returns None exactly when no name contains the
\* query.  Extraction emits only lines that carry the name and price of a
\* menu item, and no line for a canonical name that no menu name contains.
C6_LookupByContainment ==
    /\ result.op = "get_item_by_name" =>
          /\ result.val # None =>
                /\ result.val \in LoadedItems
                /\ NameHolds(result.val, result.arg)
          /\ result.val = None <=> ~\E it \in LoadedItems : NameHolds(it, result.arg)
          /\ (\E it \in LoadedItems : Lower(Text(it.name)) = Lower(Text(result.arg)))
                => Lower(Text(result.val.name)) = Lower(Text(result.arg))
    /\ (result.op = "extract_items_from_conversation" /\ result.val.raised = "none") =>
          /\ \A k \in 1..Len(result.val.items) :
                \E it \in LoadedItems :
                    /\ it.name = result.val.items[k].name
                    /\ it.price = result.val.items[k].price
          /\ \A cn \in CanonicalNames :
                (~\E it \in LoadedItems : NameHolds(it, cn)) =>
                   ~\E k \in 1..Len(result.val.items) : NameHolds(result.val.items[k], cn)

\* a query that is no item's name was answered with an item
C6_Witness ==
    /\ result.op = "get_item_by_name"
    /\ result.val # None
    /\ Lower(Text(result.val.name)) # Lower(Text(result.arg))

\* C7: looking up the lower-cased name of any item of the loaded menu
\* returns that item.
C7_RoundTrip ==
    result.op = "get_item_by_name" =>
       \A it \in LoadedItems :
           Text(result.arg) = Lower(Text(it.name)) => result.val = it

\* C8: search_items("") returns nothing on a menu that has items.
C8_EmptyQueryFindsNothing ==
    (result.op = "search_items" /\ result.arg = "" /\ LoadedItems # {})
       => result.val = <<>>

DuplicateInCategory(menu) ==
    \E c \in 1..Len(menu) : \E i, j \in 1..Len(menu[c].items) :
        i < j /\ Lower(Text(menu[c].items[i].name)) = Lower(Text(menu[c].items[j].name))

NegativePrice(menu) ==
    \E c \in 1..Len(menu) : \E i \in 1..Len(menu[c].items) :
        "price" \in DOMAIN menu[c].items[i] /\ menu[c].items[i].price < 0

\* the source at the menu path is one the load has to refuse
BadSource(file) ==
    \/ file.kind \in {"missing", "malformed", "no_menu_key"}
    \/ DuplicateInCategory(file.menu)
    \/ NegativePrice(file.menu)

\* C9: constructing the menu manager fails whenever the source is missing,
\* malformed, has two equal names in a category or a negative price.
C9_LoadFailsOnBadSource ==
    (menu_manager.state # "unloaded" /\ BadSource(files.primary))
       => menu_manager.state = "failed"

\* C10: an order assembled by the enhanced bot is takeout when no utterance
\* says "dine in", "dining in" or "delivery", and delivery when an utterance
\* says "delivery" and none says "dine in" or "dining in".
C10_FulfillmentDefault ==
    bot = "enhanced" =>
       \A c \in Calls : \A i \in Assembled(c) :
          /\ ~Says(c, {<<"d","i","n","e"," ","i","n">>, <<"d","i","n","i","n","g"," ","i","n">>, <<"d","e","l","i","v","e","r","y">>})
                => handlers[c][i].order.order_type = "takeout"
          /\ (Says(c, {<<"d","e","l","i","v","e","r","y">>}) /\ ~Says(c, {<<"d","i","n","e"," ","i","n">>, <<"d","i","n","i","n","g"," ","i","n">>}))
                => handlers[c][i].order.order_type = "delivery"

\* the text create_order_data reads for call c: every message, lower-cased
FullText(c) == Lower(ConversationText(Conversation(bot, messages[c])))

\* message u stands before message v in the context of call c
SaidBefore(c, u, v) ==
    \E j, k \in 1..Len(messages[c]) :
        j < k /\ messages[c][j] = u /\ messages[c][k] = v

\* C11: whenever the text the enhanced bot reads contains "dine in" or
\* "dining in" and also "delivery", wherever the two stand, the order data
\* it extracts has the dine-in fulfillment type.
C11_DineInPrecedence ==
    bot = "enhanced" =>
       \A c \in Calls : \A i \in Extracted(c) :
          ( /\ \/ Contains(FullText(c), <<"d","i","n","e"," ","i","n">>)
               \/ Contains(FullText(c), <<"d","i","n","i","n","g"," ","i","n">>)
            /\ Contains(FullText(c), <<"d","e","l","i","v","e","r","y">>) )
             => handlers[c][i].order.order_type = "dine-in"

\* an order was assembled from a text in which "delivery" stands before the
\* dine-in phrase (in the prompt) and after it (in a later utterance)
C11_Witness ==
    /\ bot = "enhanced"
    /\ \E c \in Calls :
          /\ SaidBefore(c, "system", "Dining in")
          /\ SaidBefore(c, "Dining in", "a Tuna Roll for delivery")
          /\ \E i \in Assembled(c) : handlers[c][i].order.order_type = "dine-in"

\* what the customer and the agent said in call c, joined by " "
SpokenText(c) == Join(SpokenContents(Conversation(bot, messages[c])))

\* C12: in every assembled order the customer has the three fields name,
\* phone and email; phone is the first telephone number in the customer and
\* agent utterances and "" when they hold none; name is "" when no utterance
\* matches a name pattern; email is "".
C12_CustomerFieldsDegradeToEmpty ==
    \A c \in Calls : \A i \in Assembled(c) :
        LET customer == handlers[c][i].order.customer IN
        /\ DOMAIN customer = {"name", "phone", "email"}
        /\ customer.phone = Str(PhoneOf(SpokenText(c)))
        /\ NameOf(SpokenText(c), name_patterns) = <<>> => customer.name = ""
        /\ customer.email = ""

\* the sum of price x quantity over the lines, in cents
RECURSIVE ExactSubtotal(_)
ExactSubtotal(items) ==
    IF items = <<>> THEN 0
    ELSE items[1].price * items[1].quantity + ExactSubtotal(Tail(items))

\* n / d rounded to the nearest integer, a tie to the even one
RoundHalfEven(n, d) ==
    IF 2 * (n % d) > d \/ (2 * (n % d) = d /\ (n \div d) % 2 = 1)
    THEN n \div d + 1 ELSE n \div d

\* n / d rounded to the nearest integer, a tie upwards
RoundHalfUp(n, d) == IF 2 * (n % d) >= d THEN n \div d + 1 ELSE n \div d

\* C13: the total with tax of a list of lines is the sum of price x quantity
\* times 1.13, rounded to two decimals (a tie to the even cent or upwards,
\* the two rules the pricing rule admits), and is not negative; the lines
\* (7.28, 2) and (3.98, 1) have the subtotal 18.54 and the total 20.95.
C13_TotalIsRoundedProduct ==
    result.op = "calculate_total" =>
       /\ result.val.total \in { RoundHalfEven(ExactSubtotal(result.arg) * 113, 100),
                                 RoundHalfUp(ExactSubtotal(result.arg) * 113, 100) }
       /\ result.val.total >= 0
       /\ result.arg = << [price |-> 728, quantity |-> 2], [price |-> 398, quantity |-> 1] >>
             => (result.val.subtotal = 1854 /\ result.val.total = 2095)

\* C14: with two calls served at once, every order that is sent for a call
\* and the order of every handler of the call is the order data of the
\* call's own messages and the shared menu manager (its ready time is the
\* clock's), whatever the other call says or does and however the handlers
\* interleave; the menu manager is never written after the load.
C14_CallsAreIndependent ==
    /\ [](\A c \in Calls :
            LET own == OrderDataOf[bot][enhanced_order_processor.menu_manager][messages[c]]
            IN /\ \A k \in 1..Len(sinkLog[c]) : sinkLog[c][k] = own
               /\ \A i \in Extracted(c) : handlers[c][i].order = own)
    /\ [][/\ menu_manager' = menu_manager
          /\ enhanced_order_processor' = enhanced_order_processor]_vars

\* the handlers of two calls with different conversations both await the
\* webhook, and each call's order has been sent
C14_Witness ==
    /\ handlers[1] # <<>> /\ handlers[2] # <<>>
    /\ handlers[1][1].pc = "awaiting_sink"
    /\ handlers[2][1].pc = "awaiting_sink"
    /\ sinkLog[1] # <<>> /\ sinkLog[2] # <<>>
    /\ sinkLog[1][1].items # sinkLog[2][1].items

\* a text without its leading and trailing whitespace
RECURSIVE StripLeft(_)
StripLeft(t) == IF t # <<>> /\ IsSpace(t[1]) THEN StripLeft(Tail(t)) ELSE t

RECURSIVE StripRight(_)
StripRight(t) ==
    IF t # <<>> /\ IsSpace(t[Len(t)]) THEN StripRight(SubSeq(t, 1, Len(t) - 1)) ELSE t

Stripped(t) == StripRight(StripLeft(t))

\* the item dicts of the loaded menu, by their place
ItemPlaces ==
    UNION { { <<c, i>> : i \in 1..Len(menu_manager.menu[c].items) } :
              c \in 1..Len(menu_manager.menu) }

ItemAt(p) == menu_manager.menu[p[1]].items[p[2]]

NormalKey(item) == Str(Stripped(Lower(Text(item.name))))

\* C15: in a loaded menu manager the items of the categories and the values
\* of item_index are the same items, every item of a category is the value
\* of exactly one key, the keys are the lower-cased, whitespace-trimmed
\* names, and no two items have the same key.
C15_CatalogIndexInvariant ==
    menu_manager.state = "loaded" =>
       LET index == menu_manager.item_index IN
       /\ { index[k].data.item : k \in 1..Len(index) } = LoadedItems
       /\ \A p \in ItemPlaces :
              Cardinality({ k \in 1..Len(index) :
                             /\ index[k].data.item = ItemAt(p)
                             /\ index[k].data.category = menu_manager.menu[p[1]].category }) = 1
       /\ \A k \in 1..Len(index) : index[k].key = NormalKey(index[k].data.item)
       /\ \A k, l \in 1..Len(index) : index[k].key = index[l].key => k = l
       /\ \A p, q \in ItemPlaces : NormalKey(ItemAt(p)) = NormalKey(ItemAt(q)) => p = q

\* the text extraction reads: the spoken contents, joined and lower-cased
ExtractedText == Lower(Join(SpokenContents(Conversation(bot, result.arg))))

\* the patterns that gave the lines of the result, in the order of the lines
RECURSIVE PatternsOfLines(_, _)
PatternsOfLines(text, patterns) ==
    IF patterns = <<>> THEN <<>>
    ELSE (IF /\ Contains(text, patterns[1].pattern)
             /\ get_item_by_name(menu_manager, patterns[1].item_name) # None
          THEN <<patterns[1]>> ELSE <<>>)
         \o PatternsOfLines(text, Tail(patterns))

\* the places where the pattern stands in the text
Occurrences(text, pattern) ==
    { p \in 1..(Len(text) - Len(pattern) + 1) :
        SubSeq(text, p, p + Len(pattern) - 1) = pattern }

Least(S) == CHOOSE p \in S : \A r \in S : p <= r

\* whitespace and before it a word stand before place p
FollowsWord(text, p) ==
    /\ p >= 3
    /\ IsSpace(text[p - 1])
    /\ \E q \in 1..(p - 2) :
          IsWordChar(text[q]) /\ \A k \in (q + 1)..(p - 1) : IsSpace(text[k])

\* the word that stands before place p
WordBefore(text, p) ==
    LET q == CHOOSE q \in 1..(p - 2) :
                 IsWordChar(text[q]) /\ \A k \in (q + 1)..(p - 1) : IsSpace(text[k])
        s == CHOOSE s \in 1..q :
                 /\ \A k \in s..q : IsWordChar(text[k])
                 /\ (s = 1 \/ ~IsWordChar(text[s - 1]))
    IN SubSeq(text, s, q)

NumberWords ==
    << <<"o","n","e">>, <<"t","w","o">>, <<"t","h","r","e","e">>, <<"f","o","u","r">>, <<"f","i","v","e">> >>

TableValue(w) ==
    IF \E n \in 1..5 : NumberWords[n] = w
    THEN CHOOSE n \in 1..5 : NumberWords[n] = w
    ELSE 1

ExtractedLines ==
    IF result.op = "extract_items_from_conversation" /\ result.val.raised = "none"
    THEN result.val.items ELSE <<>>

\* C16 as claimed: the quantity of a line is the table value of the word
\* immediately before the first occurrence of its phrase in the text, and 1
\* when no word stands there or the word is not in the table; "two
\* california roll" gives 2, "california roll" alone gives 1, and every
\* quantity is in 1..5.
C16_QuantityAtFirstOccurrence ==
    LET text == ExtractedText
        pats == PatternsOfLines(text, item_patterns)
    IN \A k \in 1..Len(ExtractedLines) :
          LET first == Least(Occurrences(text, pats[k].pattern)) IN
          /\ ExtractedLines[k].quantity =
                IF FollowsWord(text, first)
                THEN TableValue(WordBefore(text, first)) ELSE 1
          /\ ExtractedLines[k].quantity \in 1..5

\* C16 as amended: the quantity of a line is the table value of the word
\* before the first occurrence of its phrase that follows a word and
\* whitespace, and 1 when the phrase follows a word nowhere or that word is
\* not in the table; "two california roll" gives 2, "california roll" alone
\* gives 1, and every quantity is in 1..5.
C16_QuantityAtFirstWordedOccurrence ==
    LET text == ExtractedText
        pats == PatternsOfLines(text, item_patterns)
    IN /\ \A k \in 1..Len(ExtractedLines) :
             LET worded == { p \in Occurrences(text, pats[k].pattern) :
                               FollowsWord(text, p) }
             IN /\ ExtractedLines[k].quantity =
                      IF worded # {}
                      THEN TableValue(WordBefore(text, Least(worded))) ELSE 1
                /\ ExtractedLines[k].quantity \in 1..5
       /\ (ExtractedLines # <<>> /\ text = <<"t","w","o"," ","c","a","l","i","f","o","r","n","i","a"," ","r","o","l","l">>)
             => ExtractedLines[1].quantity = 2
       /\ (ExtractedLines # <<>> /\ text = <<"c","a","l","i","f","o","r","n","i","a"," ","r","o","l","l">>)
             => ExtractedLines[1].quantity = 1

\* the phrase is said alone and then with a number word: the quantity is
\* read at the second mention
C16_Witness ==
    /\ result.op = "extract_items_from_conversation"
    /\ result.arg = <<"system", "california roll", "two california roll">>
    /\ result.val.raised = "none"
    /\ Len(result.val.items) = 1
    /\ result.val.items[1].quantity = 2

\* C17: extraction returns at most one line for every phrase of the table
\* that the text holds, however often it holds it (the quantity is that of
\* one mention), no two lines have the same item name, and the lines stand
\* in the order of the phrase table.
C17_OneLinePerPhrase ==
    LET text == ExtractedText
        pats == PatternsOfLines(text, item_patterns)
        lines == ExtractedLines
    IN (result.op = "extract_items_from_conversation" /\ result.val.raised = "none") =>
          /\ Len(lines) = Len(pats)
          /\ \A k \in 1..Len(lines) :
                /\ lines[k].name = get_item_by_name(menu_manager, pats[k].item_name).name
                /\ lines[k].quantity \in 1..5
          /\ \A k, l \in 1..Len(lines) : lines[k].name = lines[l].name => k = l

\* the items of the menu the order processor reads
ProcessorItems == { e.item : e \in MenuEntries(enhanced_order_processor.menu_manager.menu) }

\* C18: when the enhanced bot extracts an order, every line has the name
\* and price of an item of the catalog its order processor reads at that
\* step; no later step, a re-initialisation of the menu manager included,
\* changes the order data of a handler, also while its request is in
\* flight; and every payload sent is the order data of a handler of the
\* call.
C18_PriceSnapshot ==
    /\ [][\A c \in Calls :
            (bot = "enhanced" /\ Len(handlers'[c]) > Len(handlers[c])) =>
               LET items == handlers'[c][Len(handlers'[c])].order.items IN
               \A k \in 1..Len(items) :
                   \E it \in ProcessorItems :
                       it.name = items[k].name /\ it.price = items[k].price]_vars
    /\ [][\A c \in Calls :
            /\ \A i \in 1..Len(handlers[c]) : handlers'[c][i].order = handlers[c][i].order
            /\ SubSeq(sinkLog'[c], 1, Len(sinkLog[c])) = sinkLog[c]]_vars
    /\ [](\A c \in Calls : \A k \in 1..Len(sinkLog[c]) :
             \E i \in Assembled(c) : handlers[c][i].order = sinkLog[c][k])

\* the menu manager was initialised again with a new price, and an order
\* with the price of extraction time was sent and acknowledged
C18_Witness ==
    /\ menu_manager # enhanced_order_processor.menu_manager
    /\ \E i \in Assembled(1) :
          /\ handlers[1][i].outcome = "success"
          /\ \E k \in 1..Len(handlers[1][i].order.items) :
                /\ handlers[1][i].order.items[k].name = "California Roll"
                /\ handlers[1][i].order.items[k].price = 728
    /\ \E e \in MenuEntries(menu_manager.menu) :
          e.item.name = "California Roll" /\ e.item.price = 828

\* the runs of the handler of call c that came to the POST
Posting(c) ==
    { i \in HandlerIds(c) :
        handlers[c][i].pc = "awaiting_sink" \/ handlers[c][i].response # NoResponse }

\* the webhook answered with a status outside 2xx, or the request failed
FailedAttempt(resp) ==
    \/ resp.kind = "transport_error"
    \/ resp.kind = "http" /\ resp.status \notin 200..299

\* C19: a run of the call-disconnected handler posts to the webhook at most
\* once: the POSTs of a call are as many as its runs that came to the POST,
\* a step that starts no run posts nothing, and a run whose attempt failed
\* has ended with the failure logged.
C19_NoRetry ==
    /\ [](\A c \in Calls : Len(sinkLog[c]) = Cardinality(Posting(c)))
    /\ [][\A c \in Calls :
            Len(handlers'[c]) = Len(handlers[c]) => sinkLog'[c] = sinkLog[c]]_vars
    /\ [](\A c \in Calls : \A i \in HandlerIds(c) :
             FailedAttempt(handlers[c][i].response) =>
                /\ handlers[c][i].pc = "done"
                /\ handlers[c][i].outcome = "failed")

\* two runs of a call have each posted once; one got a 500 and one a
\* transport error, and both have ended
C19_Witness ==
    /\ Len(handlers[1]) = 2
    /\ Len(sinkLog[1]) = 2
    /\ handlers[1][1].response.kind = "transport_error"
    /\ handlers[1][2].response.status = 500
    /\ handlers[1][1].pc = "done" /\ handlers[1][2].pc = "done"

====
